---- MODULE Spec2Model ----
(***************************************************************************)
(* wiki-path: the breadth-first search of cmd_path (src/main.rs).          *)
(*                                                                         *)
(* Strings are sequences of one-character strings, so that strip_prefix,   *)
(* find('#') and contains(':') are computed as the code computes them.     *)
(* The registry `articles` is a function on 0..len-1 (Rust's Vec indices), *)
(* `article_parent` a function on the keys inserted so far (the HashMap).  *)
(* Option values are sequences of length 0 (None) or 1 (Some).             *)
(*                                                                         *)
(* The body of a page is an input of the search.  Its elements are read    *)
(* one at a time by the element loop, so the model draws each element when *)
(* the loop reaches it; every identifier is requested at most once, which  *)
(* makes this the same as fixing every page before the search starts.      *)
(*                                                                         *)
(* History variables (read by no action): `fetched`, the requests sent;    *)
(* `seen`, what the last element read yielded; `edges`, the links of the   *)
(* pages read.  `edges` always holds the link through which a node was     *)
(* inserted; the links to identifiers the registry already has are kept    *)
(* only when `graph_history` is set (SpecGraph), where the whole link      *)
(* graph is needed.  `read` is the last element the element loop read, kept *)
(* only when `page_history` is set (SpecPage).                             *)
(*                                                                         *)
(* Instants and durations are whole milliseconds: `now` is the clock       *)
(* (Instant::now()), counted from the origin of the clock.  The rounding   *)
(* of the f32 quotient behind req_wait is far below that resolution.       *)
(***************************************************************************)
EXTENDS Integers, Sequences, FiniteSets, TLC

\* ------------------------------------------------------------------ bounds
\* Largest ordinary max_depth tried (u32::MAX is tried as well).
MaxDepthBound == 2
\* Largest number of elements a document has.
MaxDocLen == 2
\* Longest generated link target (after the prefix) of SpecPage.
MaxTailLen == 3

\* ------------------------------------------------------ program constants
\* max_depth is a u32.  A u32 is held as two 16-bit halves, [hi, lo], its value
\* being hi * 2^16 + lo: the model checker's integers end at 2^31 - 1.
HalfModulus == 65536

HOUR_SECS == 3600
ANON_RATE_LIMIT == 500
API_RATE_LIMIT == 5000

ANON_PREFIX == <<"/", "w", "i", "k", "i", "/">>
API_PREFIX == <<".", "/">>
Main_Page == <<"M", "a", "i", "n", "_", "P", "a", "g", "e">>
External_links == "External_links"

\* ---------------------------------------------------------------- inputs
None == <<>>
Some(x) == <<x>>

EmptyName == <<>>
RealNames == {<<"A">>, <<"B">>, <<"C">>, <<"D">>}
\* Identifiers a link can yield: article names and the empty string (the link
\* whose target is just the prefix).
Names == RealNames \cup {EmptyName}

Starts == {<<"A">>}
Ends == Names
Tokens == {None, Some("tok")}
U32(n) == [hi |-> n \div HalfModulus, lo |-> n % HalfModulus]
U32_MAX == [hi |-> HalfModulus - 1, lo |-> HalfModulus - 1]
MaxDepths == { U32(d) : d \in 0..MaxDepthBound } \cup {U32_MAX}

\* What follows the prefix in the link targets of the modelled pages.
Tails ==
    Names \cup
    { Main_Page,
      <<"T", ":", "B">>,            \* a namespaced page
      <<"B", "#", "s">>,            \* an article with a fragment
      <<"C", "#", ":">>,            \* ':' only after the '#'
      <<"#", "s">> }                \* only a fragment
Hrefs ==
    { p \o t : p \in {ANON_PREFIX, API_PREFIX}, t \in Tails }
    \cup { <<"h", ":", "/", "/", "x">> }

Element(name, id, href) == [name |-> name, id |-> id, href |-> href]
Elements ==
    { Element("a", None, Some(h)) : h \in Hrefs }
    \cup { Element("a", None, None),
           Element("p", None, None),
           Element("span", Some(External_links), None),
           Element("a", Some(External_links), Some(ANON_PREFIX \o <<"D">>)),
           Element("a", Some(External_links), Some(API_PREFIX \o <<"D">>)) }

\* The elements of SpecPage: every target over a small alphabet behind a whole
\* prefix or a broken one, and the elements that are no plain links.
PageAlphabet == {"B", "#", ":"}
PageTails ==
    UNION { [1..k -> PageAlphabet] : k \in 0..MaxTailLen }
    \cup { Main_Page \o t : t \in {<<>>, <<"#">>, <<":">>, <<"B">>, <<"#", ":">>} }
PageHeads == {ANON_PREFIX, API_PREFIX, <<"/", "w", "i", "k", "i">>}
PageElements ==
    { Element("a", None, Some(p \o t)) : p \in PageHeads, t \in PageTails }
    \cup { Element("a", Some(External_links), Some(p \o <<"B">>)) :
               p \in {ANON_PREFIX, API_PREFIX} }
    \cup { Element("a", None, None),
           Element("area", None, Some(ANON_PREFIX \o <<"B">>)),
           Element("span", Some("See_also"), None),
           Element("span", Some(External_links), None) }

\* The elements of SpecTime.
TimeElements ==
    { Element("a", None, Some(p \o t)) :
         p \in {ANON_PREFIX, API_PREFIX}, t \in {<<"B">>, <<"C">>} }
    \cup { Element("p", None, None), Element("span", Some(External_links), None) }

VARIABLES
    start, end, all, max_depth, external, token,   \* the arguments and the token
    articles, article_parent,                      \* the registry
    curr_idx, level_len, next_level_len,           \* the frontier
    depth, range_end, end_idx,                     \* the level loop
    pc,                                            \* position in cmd_path
    elem_count,                                    \* elements read of the document
    output,                                        \* the matches printed
    now, prev_req,                                 \* the clock and the limiter
    fetched,                                       \* history: the requests sent
    seen,                                          \* history: the last candidate
    edges,                                         \* history: <<page, candidate>>
    graph_history,                                 \* whether edges keeps every link
    read,                                          \* history: the last element read
    page_history                                   \* whether read is kept

args == <<start, end, all, max_depth, external, token>>
registry == <<articles, article_parent>>
frontier == <<curr_idx, level_len, next_level_len>>
loop == <<depth, range_end, end_idx>>
clock == <<now, prev_req>>
history == <<fetched, seen, edges, graph_history, read, page_history>>
vars == <<args, registry, frontier, loop, pc, elem_count, output, clock, history>>

\* ------------------------------------------------------- string helpers
\* str::strip_prefix
strip_prefix(s, p) ==
    IF Len(s) >= Len(p) /\ SubSeq(s, 1, Len(p)) = p
    THEN Some(SubSeq(s, Len(p) + 1, Len(s)))
    ELSE None

\* str::find(char): the first position (from 0) of the character
find(s, ch) ==
    LET hits == { i \in 1..Len(s) : s[i] = ch }
    IN  IF hits = {} THEN None
        ELSE Some((CHOOSE i \in hits : \A j \in hits : i <= j) - 1)

\* str::contains(char)
contains_char(s, ch) == \E i \in 1..Len(s) : s[i] = ch

\* The prefix the token selects.
prefix == IF token # None THEN API_PREFIX ELSE ANON_PREFIX

\* Mutant of remove_fragment: the name is cut at the last '#'.
remove_fragment_last(name) ==
    LET hits == { i \in 1..Len(name) : name[i] = "#" }
    IN  IF hits = {} THEN name
        ELSE SubSeq(name, 1, (CHOOSE i \in hits : \A j \in hits : j <= i) - 1)

\* Remove #fragments
remove_fragment(name) ==
    LET idx == find(name, "#")
    IN  IF idx # None THEN SubSeq(name, 1, idx[1]) ELSE name

\* Exclude "Main_Page" or Special: / Talk: etc
is_article(name) == name # Main_Page /\ ~contains_char(name, ":")

\* The identifier an element yields, if any.
candidate(element) ==
    IF element.name = "a" /\ element.href # None
    THEN LET stripped == strip_prefix(element.href[1], prefix)
         IN  IF stripped = None THEN None
             ELSE LET name == remove_fragment(stripped[1])
                  IN  IF is_article(name) THEN Some(name) ELSE None
    ELSE None

\* Mutant of is_boundary: --external is not looked at.
is_boundary_in_any_mode(element) == element.id = Some(External_links)

\* The element at which the element loop breaks.
is_boundary(element) == ~external /\ element.id = Some(External_links)

\* ------------------------------------------------------ u32 arithmetic
\* x + 1 on a u32: the wrapped sum and whether it overflowed.
u32_add_one(x) ==
    IF x.lo + 1 < HalfModulus
    THEN [value |-> [hi |-> x.hi, lo |-> x.lo + 1], overflow |-> FALSE]
    ELSE [value |-> [hi |-> (x.hi + 1) % HalfModulus, lo |-> 0],
          overflow |-> x.hi + 1 >= HalfModulus]

\* Mutant of u32_less: the range taken as inclusive (0..=max_depth + 1).
u32_less_or_equal(a, b) == a.hi < b.hi \/ (a.hi = b.hi /\ a.lo <= b.lo)

\* a < b on u32 values: the range 0..range_end yields depth while depth < range_end
u32_less(a, b) == a.hi < b.hi \/ (a.hi = b.hi /\ a.lo < b.lo)

\* ---------------------------------------------------------- rate limit
rate_limit == IF token # None THEN API_RATE_LIMIT ELSE ANON_RATE_LIMIT

\* Duration::from_secs_f32(HOUR_SECS as f32 / rate_limit as f32), in milliseconds
req_wait == (HOUR_SECS * 1000) \div rate_limit

\* Instant::checked_sub: None when the result is before the origin of the clock
checked_sub(instant, duration) ==
    IF instant >= duration THEN Some(instant - duration) ELSE None

\* Mutant of sleep_for: the limiter never sleeps.
sleep_for_nothing(elapsed) == 0

\* The duration the limiter sleeps for: req_wait - elapsed if elapsed < req_wait
sleep_for(elapsed) == IF elapsed < req_wait THEN req_wait - elapsed ELSE 0

\* The instant a request is sent (prev_req = Instant::now() after the sleep,
\* which lasts `over` longer than asked).
send_instant(over) ==
    LET slept == sleep_for(now - prev_req)
    IN  IF slept > 0 THEN now + slept + over ELSE now

\* What the history keeps of a request that took `took`.
request(index, ok, over, took) ==
    [index |-> index, depth |-> depth, ok |-> ok,
     waited |-> sleep_for(now - prev_req),
     sent |-> send_instant(over), returned |-> send_instant(over) + took]

\* ------------------------------------------------------------- registry
\* articles.len()
ALen(arts) == Cardinality(DOMAIN arts)

\* Mutant of articles_contains: only the last article pushed is compared.
articles_contains_last(arts, name) == arts[ALen(arts) - 1] = name

\* Mutant of articles_contains: only the articles not yet expanded are compared.
articles_contains_unexpanded(arts, name) ==
    \E i \in DOMAIN arts : i > curr_idx /\ arts[i] = name

\* articles.contains(&new_article): every index is compared, 0 included
articles_contains(arts, name) == \E i \in DOMAIN arts : arts[i] = name

\* articles.push(new_article)
articles_push(arts, name) ==
    [i \in 0..ALen(arts) |-> IF i < ALen(arts) THEN arts[i] ELSE name]

\* Mutant of parent_insert: the parent recorded is the article pushed just
\* before, not the article being expanded.
parent_insert_previous(par, key, value) ==
    [k \in (DOMAIN par) \cup {key} |-> IF k = key THEN key - 1 ELSE par[k]]

\* article_parent.insert(key, value)
parent_insert(par, key, value) ==
    [k \in (DOMAIN par) \cup {key} |-> IF k = key THEN value ELSE par[k]]

Reverse(s) == [i \in 1..Len(s) |-> s[Len(s) + 1 - i]]

\* Mutant of walk: the walk stops on reaching the start article (index 1)
\* without pushing it.
RECURSIVE walk_skips_start(_, _, _, _, _)
walk_skips_start(arts, par, current, path, reads) ==
    IF current # 1
    THEN walk_skips_start(arts, par, par[current], Append(path, arts[current]),
                          Append(reads, current))
    ELSE [path |-> path, reads |-> reads]

\* The walk of the parent map: the identifiers pushed and the keys read.
RECURSIVE walk(_, _, _, _, _)
walk(arts, par, current, path, reads) ==
    IF current # 0
    THEN walk(arts, par, par[current], Append(path, arts[current]),
              Append(reads, current))
    ELSE [path |-> path, reads |-> reads]

\* What a match prints: the path and its length (with the keys the walk read,
\* the index of the match and the level at which it was found).
report(arts, par) ==
    LET w == walk(arts, par, ALen(arts) - 1, <<>>, <<>>)
        path == Reverse(w.path)
    IN  [path |-> path, length |-> Len(path), reads |-> w.reads,
         index |-> ALen(arts) - 1, level |-> depth]

\* Mutant of returns_after_match: a match never ends the search.
returns_never == FALSE

\* Mutant of returns_after_match: a match always ends the search.
returns_always == TRUE

\* The search returns after a match unless --all is given.
returns_after_match == ~all

\* ---------------------------------------------------------------- Init
\* The state of cmd_path before the level loop, for given sets of inputs.
InitWith(starts, ends, alls, depths, externals, tokens) ==
    /\ start \in starts
    /\ end \in ends
    /\ all \in alls
    /\ max_depth \in depths
    /\ external \in externals
    /\ token \in tokens
    /\ articles = [i \in 0..1 |-> IF i = 0 THEN EmptyName ELSE start]
    /\ article_parent = [k \in {1} |-> 0]
    /\ curr_idx = 0
    /\ level_len = 0
    /\ next_level_len = 1
    /\ depth = 0
    /\ range_end = U32(0)
    /\ end_idx = 0
    /\ pc = "range"
    /\ elem_count = 0
    /\ output = <<>>
    /\ fetched = <<>>
    /\ seen = None
    /\ edges = {}
    /\ read = None

\* The limiter before the level loop, the search starting at one of `clocks`.
InitClock(clocks) ==
    /\ now \in clocks
    /\ prev_req = IF checked_sub(now, req_wait) # None
                  THEN checked_sub(now, req_wait)[1]
                  ELSE now

\* The search starts an hour after the origin of the clock.
Clocks == {HOUR_SECS * 1000}

Init ==
    /\ InitWith(Starts, Ends, BOOLEAN, MaxDepths, BOOLEAN, Tokens)
    /\ InitClock(Clocks)
    /\ graph_history = FALSE
    /\ page_history = FALSE

\* Stop-at-first-hit searches for an identifier other than the start, with the
\* whole link graph kept.
InitGraph ==
    /\ InitWith(Starts, Names \ Starts, {FALSE}, {U32(MaxDepthBound), U32_MAX},
                BOOLEAN, {None})
    /\ InitClock(Clocks)
    /\ graph_history = TRUE
    /\ page_history = FALSE

\* Searches of the start page alone, with the last element read kept.
InitPage ==
    /\ InitWith(Starts, {<<"B">>}, BOOLEAN, {U32(0), U32_MAX}, BOOLEAN, Tokens)
    /\ InitClock(Clocks)
    /\ graph_history = FALSE
    /\ page_history = TRUE

\* Searches of two levels over few links, started at several clock values.
TimeClocks == {0, req_wait, HOUR_SECS * 1000}
InitTime ==
    /\ InitWith(Starts, {<<"C">>}, {TRUE}, {U32(1), U32_MAX}, {FALSE}, Tokens)
    /\ InitClock(TimeClocks)
    /\ graph_history = FALSE
    /\ page_history = FALSE

\* How much longer than asked a sleep lasts, and how long a request and the
\* reading of its page take.
NoDelays == {0}
\* Nothing, half the shorter req_wait and twice the longer one.
TimeDelays ==
    { 0,
      ((HOUR_SECS * 1000) \div API_RATE_LIMIT) \div 2,
      2 * ((HOUR_SECS * 1000) \div ANON_RATE_LIMIT) }

\* ------------------------------------------------------------- actions
\* 0..(max_depth + 1): the sum fits a u32.
Range ==
    /\ pc = "range"
    /\ ~u32_add_one(max_depth).overflow
    /\ range_end' = u32_add_one(max_depth).value
    /\ pc' = "for"
    /\ UNCHANGED <<args, registry, frontier, depth, end_idx, elem_count, output,
                   clock, history>>

\* The sum overflows; a build with overflow checks panics.
RangePanic ==
    /\ pc = "range"
    /\ u32_add_one(max_depth).overflow
    /\ pc' = "panic"
    /\ UNCHANGED <<args, registry, frontier, loop, elem_count, output, clock,
                   history>>

\* The sum overflows; a build without overflow checks wraps.
RangeWrap ==
    /\ pc = "range"
    /\ u32_add_one(max_depth).overflow
    /\ range_end' = u32_add_one(max_depth).value
    /\ pc' = "for"
    /\ UNCHANGED <<args, registry, frontier, depth, end_idx, elem_count, output,
                   clock, history>>

\* Mutant of ForNext: next_level_len is not reset.
ForNextKeepsCount ==
    /\ pc = "for"
    /\ u32_less(U32(depth), range_end)
    /\ level_len' = next_level_len
    /\ next_level_len' = next_level_len
    /\ end_idx' = curr_idx + next_level_len
    /\ pc' = "while"
    /\ UNCHANGED <<args, registry, curr_idx, depth, range_end, elem_count, output,
                   clock, history>>

\* The head of a level.
ForNext ==
    /\ pc = "for"
    /\ u32_less(U32(depth), range_end)
    /\ level_len' = next_level_len
    /\ next_level_len' = 0
    /\ end_idx' = curr_idx + next_level_len
    /\ pc' = "while"
    /\ UNCHANGED <<args, registry, curr_idx, depth, range_end, elem_count, output,
                   clock, history>>

\* The range is exhausted: cmd_path returns.
ForExit ==
    /\ pc = "for"
    /\ ~u32_less(U32(depth), range_end)
    /\ pc' = "done"
    /\ UNCHANGED <<args, registry, frontier, loop, elem_count, output, clock,
                   history>>

\* The level is exhausted.
WhileExit ==
    /\ pc = "while"
    /\ ~(curr_idx < end_idx)
    /\ depth' = depth + 1
    /\ pc' = "for"
    /\ UNCHANGED <<args, registry, frontier, range_end, end_idx, elem_count, output,
                   clock, history>>

\* Mutant of FetchFail: the failure ends the search (return for continue).
FetchFailReturns(delays) ==
    /\ pc = "while"
    /\ curr_idx < end_idx
    /\ \E over \in delays, took \in delays :
        /\ curr_idx' = curr_idx + 1
        /\ prev_req' = send_instant(over)
        /\ now' = send_instant(over) + took
        /\ fetched' = Append(fetched, request(curr_idx + 1, FALSE, over, took))
        /\ pc' = "done"
    /\ read' = None
    /\ UNCHANGED <<args, registry, level_len, next_level_len, loop, elem_count,
                   output, seen, edges, graph_history, page_history>>

\* Mutant of FetchOk: the cursor is advanced after the article is read, so
\* the article requested is articles[curr_idx] before the increment.
FetchOkBeforeIncrement(delays) ==
    /\ pc = "while"
    /\ curr_idx < end_idx
    /\ \E over \in delays, took \in delays :
        /\ curr_idx' = curr_idx + 1
        /\ prev_req' = send_instant(over)
        /\ now' = send_instant(over) + took
        /\ fetched' = Append(fetched, request(curr_idx, TRUE, over, took))
    /\ elem_count' = 0
    /\ pc' = "scan"
    /\ read' = None
    /\ UNCHANGED <<args, registry, level_len, next_level_len, loop, output, seen,
                   edges, graph_history, page_history>>

\* The limiter lets the request of the next node go; the request fails, or its
\* body cannot be read.
FetchFail(delays) ==
    /\ pc = "while"
    /\ curr_idx < end_idx
    /\ \E err \in {"send", "text"}, over \in delays, took \in delays :
        /\ curr_idx' = curr_idx + 1
        /\ prev_req' = send_instant(over)
        /\ now' = send_instant(over) + took
        /\ fetched' = Append(fetched, request(curr_idx + 1, FALSE, over, took))
        /\ pc' = "while"
    /\ read' = None
    /\ UNCHANGED <<args, registry, level_len, next_level_len, loop, elem_count,
                   output, seen, edges, graph_history, page_history>>

\* The limiter lets the request of the next node go; the request succeeds.
FetchOk(delays) ==
    /\ pc = "while"
    /\ curr_idx < end_idx
    /\ \E over \in delays, took \in delays :
        /\ curr_idx' = curr_idx + 1
        /\ prev_req' = send_instant(over)
        /\ now' = send_instant(over) + took
        /\ fetched' = Append(fetched, request(curr_idx + 1, TRUE, over, took))
    /\ elem_count' = 0
    /\ pc' = "scan"
    /\ read' = None
    /\ UNCHANGED <<args, registry, level_len, next_level_len, loop, output, seen,
                   edges, graph_history, page_history>>

\* What the history keeps of an element read.
keep(element) == IF page_history THEN Some(element) ELSE None

\* The document has no further element.
ScanEnd ==
    /\ pc = "scan"
    /\ elem_count' = 0
    /\ pc' = "while"
    /\ seen' = None
    /\ read' = None
    /\ UNCHANGED <<args, registry, frontier, loop, output, clock, fetched, edges,
                   graph_history, page_history>>

\* The next element is the External links boundary.
ScanBreak(element) ==
    /\ pc = "scan"
    /\ elem_count < MaxDocLen
    /\ is_boundary(element)
    /\ elem_count' = 0
    /\ pc' = "while"
    /\ seen' = None
    /\ read' = keep(element)
    /\ UNCHANGED <<args, registry, frontier, loop, output, clock, fetched, edges,
                   graph_history, page_history>>

\* The next element yields no identifier.
ScanSkip(element) ==
    /\ pc = "scan"
    /\ elem_count < MaxDocLen
    /\ ~is_boundary(element)
    /\ candidate(element) = None
    /\ elem_count' = elem_count + 1
    /\ seen' = None
    /\ read' = keep(element)
    /\ UNCHANGED <<args, registry, frontier, loop, pc, output, clock, fetched,
                   edges, graph_history, page_history>>

\* The next element yields an identifier the registry has.
ScanKnown(element) ==
    /\ pc = "scan"
    /\ elem_count < MaxDocLen
    /\ ~is_boundary(element)
    /\ candidate(element) # None
    /\ articles_contains(articles, candidate(element)[1])
    /\ edges' = IF graph_history
                THEN edges \cup {<<articles[curr_idx], candidate(element)[1]>>}
                ELSE edges
    /\ seen' = Some([name |-> candidate(element)[1], new |-> FALSE])
    /\ read' = keep(element)
    /\ elem_count' = elem_count + 1
    /\ UNCHANGED <<args, registry, frontier, loop, pc, output, clock, fetched,
                   graph_history, page_history>>

\* The next element yields a new identifier.
ScanInsert(element) ==
    /\ pc = "scan"
    /\ elem_count < MaxDocLen
    /\ ~is_boundary(element)
    /\ candidate(element) # None
    /\ LET name == candidate(element)[1]
           pushed == articles_push(articles, name)
           parents == parent_insert(article_parent, ALen(pushed) - 1, curr_idx)
       IN  /\ ~articles_contains(articles, name)
           /\ articles' = pushed
           /\ article_parent' = parents
           /\ next_level_len' = next_level_len + 1
           /\ edges' = edges \cup {<<articles[curr_idx], name>>}
           /\ seen' = Some([name |-> name, new |-> TRUE])
           /\ read' = keep(element)
           /\ IF name = end
              THEN /\ output' = Append(output, report(pushed, parents))
                   /\ IF returns_after_match
                      THEN pc' = "done" /\ elem_count' = elem_count
                      ELSE pc' = pc /\ elem_count' = elem_count + 1
              ELSE /\ output' = output
                   /\ pc' = pc
                   /\ elem_count' = elem_count + 1
    /\ UNCHANGED <<args, curr_idx, level_len, loop, clock, fetched, graph_history,
                   page_history>>

\* A step of cmd_path, the documents made of `elements` and the environment
\* taking its time from `delays`.
NextOver(elements, delays) ==
    \/ Range
    \/ RangePanic
    \/ RangeWrap
    \/ ForNext
    \/ ForExit
    \/ WhileExit
    \/ FetchFail(delays)
    \/ FetchOk(delays)
    \/ ScanEnd
    \/ \E element \in elements : ScanBreak(element)
    \/ \E element \in elements : ScanSkip(element)
    \/ \E element \in elements : ScanKnown(element)
    \/ \E element \in elements : ScanInsert(element)

Next == NextOver(Elements, NoDelays)

NextPage == NextOver(PageElements, NoDelays)

NextTime == NextOver(TimeElements, TimeDelays)

Spec == Init /\ [][Next]_vars

SpecGraph == InitGraph /\ [][Next]_vars

SpecPage == InitPage /\ [][NextPage]_vars

SpecTime == InitTime /\ [][NextTime]_vars

\* ======================================================== properties
\* The number of parent hops from index i back to the start node (index 1).
RECURSIVE node_depth(_)
node_depth(i) == IF i = 1 THEN 0 ELSE 1 + node_depth(article_parent[i])

\* The registered articles (the sentinel is none).
Nodes == (DOMAIN articles) \ {0}

\* The indices requested so far.
FetchedIndices == { fetched[k].index : k \in 1..Len(fetched) }

\* The pages read to their end (or to the External links boundary), and the
\* pages whose request failed: what they link to is known in full.
ClosedPages ==
    { articles[fetched[k].index] :
        k \in { j \in 1..Len(fetched) :
                  j < Len(fetched) \/ (pc # "scan" /\ seen = None) } }

\* The link graph, as far as the search has seen it.  A closed page links to
\* the candidates it yielded.  A page that was not requested, or not read to
\* its end, may link to any article: the graph is an input, and the search has
\* seen nothing that constrains those links.
LinksOf(p) ==
    IF p \in ClosedPages THEN { c \in Names : <<p, c>> \in edges } ELSE Names

\* The least number of hops from a set of pages (k hops from the start) to the
\* target, level by level.
RECURSIVE HopsFrom(_, _, _)
HopsFrom(level, visited, k) ==
    IF end \in level THEN k
    ELSE LET next == (UNION { LinksOf(p) : p \in level }) \ visited
         IN  IF next = {} THEN Cardinality(Names) + 1
             ELSE HopsFrom(next, visited \cup next, k + 1)

ShortestHops == HopsFrom({start}, {start}, 0)

\* C1: in stop-at-first-hit mode, an emitted path has no more hops than any
\* path from the start to the target in the link graph (no path of strictly
\* fewer hops exists).
C1_ShortestPath ==
    \A k \in 1..Len(output) : ~all => output[k].length - 1 <= ShortestHops

\* max_depth >= d, for a depth d of the model (far below 2^16)
DepthWithin(d) == max_depth.hi > 0 \/ d <= max_depth.lo

\* C2 (as stated): in stop-at-first-hit mode the reported length equals the
\* depth at which the target was discovered (the start article is at depth 0).
C2_LengthIsDepth ==
    \A k \in 1..Len(output) :
        ~all => output[k].length = node_depth(output[k].index)

\* C2 (amended): in stop-at-first-hit mode the reported length, the number of
\* identifiers of the path, is the discovery depth of the target plus one; the
\* target is discovered one level below the level being expanded.
C2_LengthIsDepthPlusOne ==
    \A k \in 1..Len(output) :
        ~all => /\ output[k].length = Len(output[k].path)
                /\ output[k].length = node_depth(output[k].index) + 1
                /\ node_depth(output[k].index) = output[k].level + 1

C2_Witness ==
    /\ ~all
    /\ Len(output) = 1
    /\ output[1].path = <<<<"A">>, <<"B">>, <<"D">>>>
    /\ output[1].length = 3
    /\ node_depth(output[1].index) = 2

\* C3: every node requested has discovery depth at most max_depth; the nodes
\* of depth max_depth + 1 are registered and never requested.
C3_DepthBound ==
    /\ \A k \in 1..Len(fetched) :
          /\ fetched[k].index \in Nodes
          /\ DepthWithin(node_depth(fetched[k].index))
    /\ \A i \in Nodes : ~DepthWithin(node_depth(i)) => i \notin FetchedIndices

C3_Witness ==
    /\ pc = "done"
    /\ max_depth = U32(1)
    /\ \E i \in Nodes : node_depth(i) = 2 /\ i \notin FetchedIndices
    /\ \E k \in 1..Len(fetched) : node_depth(fetched[k].index) = 1

\* C4: no identifier occurs at two different indices >= 1 of the registry.
C4_NoRevisits ==
    \A i, j \in Nodes : i # j => articles[i] # articles[j]

\* A link back to the start article is read on a page other than the start's.
C4_Witness ==
    /\ pc = "scan"
    /\ curr_idx > 1
    /\ seen = Some([name |-> start, new |-> FALSE])

\* C5: an emitted path starts at the start article, ends at the target, and
\* each identifier of it was yielded by the successfully fetched page of the
\* identifier before it; the parent walk reads no parent for index 0 and its
\* last read is for index 1.
C5_PathIsReal ==
    \A k \in 1..Len(output) :
        LET path == output[k].path
            reads == output[k].reads
        IN  /\ Len(path) >= 2
            /\ path[1] = start
            /\ path[Len(path)] = end
            /\ \A j \in 1..(Len(path) - 1) :
                  /\ <<path[j], path[j + 1]>> \in edges
                  /\ \E m \in 1..Len(fetched) :
                        /\ fetched[m].ok
                        /\ fetched[m].index \in Nodes
                        /\ articles[fetched[m].index] = path[j]
            /\ \A r \in 1..Len(reads) : reads[r] # 0
            /\ reads[Len(reads)] = 1

\* A path of three hops: the parent of the target is neither the start nor
\* the article pushed just before the target.
C5_Witness ==
    /\ Len(output) = 1
    /\ Len(output[1].path) >= 3
    /\ article_parent[output[1].index] # output[1].index - 1

\* C6: with all = false, once a match is emitted the search is over: the
\* match is the last article inserted, the page it was found on is the last
\* one requested, and it is the only output.
C6_StopAtFirstHit ==
    (~all /\ output # <<>>) =>
        /\ pc = "done"
        /\ Len(output) = 1
        /\ output[1].index = ALen(articles) - 1
        /\ fetched[Len(fetched)].index = article_parent[output[1].index]

\* The match is found in the middle of a document, of a level and of the
\* depth range.
C6_Witness ==
    /\ ~all
    /\ Len(output) = 1
    /\ pc = "done"
    /\ elem_count + 1 < MaxDocLen
    /\ curr_idx < end_idx
    /\ depth < max_depth.lo

NodesWithinDepth == { i \in Nodes : DepthWithin(node_depth(i)) }

\* A step that emits a match.
Emits == Len(output') = Len(output) + 1

\* C8: with all = true a match neither ends nor alters the expansion: the
\* step that emits it does to the registry, the frontier and the loop what
\* the insertion of any other article does, and the search ends by
\* exhaustion, with every node of depth at most max_depth requested once (the
\* target included).
C8_AllKeepsSearching ==
    /\ [][(all /\ Emits) =>
            /\ pc' = pc
            /\ elem_count' = elem_count + 1
            /\ next_level_len' = next_level_len + 1
            /\ ALen(articles') = ALen(articles) + 1
            /\ UNCHANGED <<curr_idx, level_len, loop, fetched>>]_vars
    /\ []((all /\ output # <<>> /\ pc = "done") =>
            /\ FetchedIndices = NodesWithinDepth
            /\ Len(fetched) = Cardinality(NodesWithinDepth)
            /\ ~u32_less(U32(depth), range_end))

\* The search ends after the target itself and a node found on its page have
\* been requested.
C8_Witness ==
    /\ all
    /\ pc = "done"
    /\ Len(output) = 1
    /\ output[1].index \in FetchedIndices
    /\ \E i \in FetchedIndices : i # 1 /\ article_parent[i] = output[1].index

\* A step in which a request fails.
Fails ==
    /\ Len(fetched') = Len(fetched) + 1
    /\ ~fetched'[Len(fetched')].ok

\* Some request has failed.
Failed == \E k \in 1..Len(fetched) : ~fetched[k].ok

\* C9: a failed request leaves the registry, the parent map and
\* next_level_len unchanged, advances the cursor and returns to the level
\* loop; a search in which requests failed still requests every node of depth
\* at most max_depth, unless it stops at the first hit.
C9_FetchFailureRecovered ==
    /\ [][Fails =>
            /\ UNCHANGED <<articles, article_parent, next_level_len, level_len,
                           loop, output>>
            /\ curr_idx' = curr_idx + 1
            /\ pc' = "while"]_vars
    /\ []((Failed /\ pc = "done" /\ (all \/ output = <<>>)) =>
            /\ FetchedIndices = NodesWithinDepth
            /\ ~u32_less(U32(depth), range_end))
    /\ [](Failed => pc # "panic")

\* After a failure, a node of the same level and a node of a later level are
\* requested.
C9_Witness ==
    \E j, k, m \in 1..Len(fetched) :
        /\ ~fetched[j].ok
        /\ j < k /\ fetched[k].depth = fetched[j].depth /\ fetched[k].ok
        /\ k < m /\ fetched[m].depth > fetched[j].depth

\* C10: the k-th request is for index k (index 1 first, none skipped, none
\* twice), at the level equal to the node's depth; every node of a lesser
\* depth has been requested, and its page read to the end, before.
C10_FetchOrder ==
    \A k \in 1..Len(fetched) :
        /\ fetched[k].index = k
        /\ k \in Nodes
        /\ fetched[k].depth = node_depth(k)
        /\ \A i \in Nodes : node_depth(i) < node_depth(k) => i < k

\* Nodes of depth 0, 1 and 2 have been requested, two of them of depth 1.
C10_Witness ==
    /\ Len(fetched) >= 4
    /\ fetched[2].depth = 1
    /\ fetched[3].depth = 1
    /\ fetched[4].depth = 2

\* C11: the search ends by returning: a state in which cmd_path has not
\* returned has a next step (every run is finite: each step advances the
\* document, the level or the depth range); a request is sent only in a level
\* that has nodes and whose depth is at most max_depth; and a search that has
\* returned without registering the target has emitted nothing.
C11_Termination ==
    /\ pc # "done" => ENABLED Next
    /\ (pc = "while" /\ curr_idx < end_idx) =>
          (level_len > 0 /\ DepthWithin(depth))
    /\ (pc = "done" /\ \A i \in Nodes : i >= 2 => articles[i] # end) =>
          output = <<>>

\* C16: a candidate that is at no index >= 1 of the registry is appended as a
\* new node whose parent is the node being expanded, also when it is the
\* empty string: once a candidate has been read, some index >= 1 holds it.
C16_InsertIgnoresSentinel ==
    seen # None =>
        /\ \E i \in Nodes : articles[i] = seen[1].name
        /\ seen[1].new =>
              /\ articles[ALen(articles) - 1] = seen[1].name
              /\ article_parent[ALen(articles) - 1] = curr_idx

\* C17: before the first request the registry is the sentinel and the start
\* article, with parent 0; every index >= 1 has one recorded parent, which is
\* smaller; an entry is only ever appended, with the node being expanded as
\* its parent, and no entry is changed or removed.
C17_RegistryShape ==
    /\ [](fetched = <<>> =>
            /\ articles = [i \in 0..1 |-> IF i = 0 THEN EmptyName ELSE start]
            /\ article_parent = [k \in {1} |-> 0])
    /\ [](/\ DOMAIN articles = 0..(ALen(articles) - 1)
          /\ DOMAIN article_parent = Nodes
          /\ \A i \in Nodes : article_parent[i] \in 0..(i - 1))
    /\ [][/\ \A i \in DOMAIN articles :
                i \in DOMAIN articles' /\ articles'[i] = articles[i]
          /\ \A k \in DOMAIN article_parent :
                k \in DOMAIN article_parent' /\ article_parent'[k] = article_parent[k]
          /\ articles' # articles =>
                /\ pc = "scan"
                /\ ALen(articles') = ALen(articles) + 1
                /\ article_parent'[ALen(articles)] = curr_idx]_vars

\* Two nodes have the same parent, and a node's parent is not the node
\* appended just before it.
C17_Witness ==
    /\ ALen(articles) >= 5
    /\ article_parent[2] = 1
    /\ article_parent[3] = 1
    /\ article_parent[4] = 2

\* C18: for every max_depth, u32::MAX included, the levels 0..=max_depth are
\* run: the sum max_depth + 1 does not overflow, the search is not aborted,
\* and the start article is requested at depth 0.
C18_DepthRange ==
    /\ pc # "panic"
    /\ pc # "range" => u32_less(max_depth, range_end)
    /\ pc = "done" =>
          /\ Len(fetched) >= 1
          /\ fetched[1].index = 1
          /\ fetched[1].depth = 0

\* C19: at the start of every level curr_idx + next_level_len is the index of
\* the last article; inside a level the nodes up to end_idx and the
\* next_level_len nodes found since are all the articles; the cursor is the
\* index of a registered article whenever articles[curr_idx] is read.
C19_FrontierAccounting ==
    /\ pc \in {"range", "for"} => curr_idx + next_level_len = ALen(articles) - 1
    /\ pc \in {"while", "scan"} =>
          /\ end_idx + next_level_len = ALen(articles) - 1
          /\ curr_idx <= end_idx
          /\ end_idx = (curr_idx - Cardinality({ k \in 1..Len(fetched) :
                                                  fetched[k].depth = depth }))
                       + level_len
    /\ pc = "scan" => curr_idx \in Nodes
    /\ \A k \in 1..Len(fetched) :
          1 <= fetched[k].index /\ fetched[k].index <= ALen(articles) - 1

\* The third level starts with nodes to expand.
C19_Witness ==
    /\ pc = "for"
    /\ depth = 2
    /\ curr_idx >= 3
    /\ next_level_len >= 1

\* The candidates the page of p was seen to yield.
ObservedLinks(p) == { c \in Names : <<p, c>> \in edges }

\* The least number of hops to the target over the links seen; -1 when they
\* do not reach it.
RECURSIVE ObservedHopsFrom(_, _, _)
ObservedHopsFrom(level, visited, k) ==
    IF end \in level THEN k
    ELSE LET next == (UNION { ObservedLinks(p) : p \in level }) \ visited
         IN  IF next = {} THEN -1
             ELSE ObservedHopsFrom(next, visited \cup next, k + 1)

ObservedHops == ObservedHopsFrom({start}, {start}, 0)

\* The target is reached in h hops and max_depth + 1 >= h.
HopsWithin(h) == h >= 0 /\ (max_depth.hi > 0 \/ h <= max_depth.lo + 1)

\* C20: when the search has returned and every request succeeded, a target
\* other than the start that the links read reach in at most max_depth + 1
\* hops has been reported, and a reported target is within max_depth + 1 hops.
C20_Completeness ==
    (pc = "done" /\ \A k \in 1..Len(fetched) : fetched[k].ok) =>
        /\ (end # start /\ HopsWithin(ObservedHops)) => output # <<>>
        /\ output # <<>> => HopsWithin(ObservedHops)

\* ------------------------------------------------------------ the filter
\* What a link target is expected to yield, stated on the target itself.
StartsWith(s, p) == Len(s) >= Len(p) /\ \A i \in 1..Len(p) : s[i] = p[i]
Remainder(s, p) == [i \in 1..(Len(s) - Len(p)) |-> s[i + Len(p)]]
BeforeFragment(r) ==
    LET k == CHOOSE n \in 0..Len(r) :
                 /\ \A i \in 1..n : r[i] # "#"
                 /\ n = Len(r) \/ r[n + 1] = "#"
    IN  SubSeq(r, 1, k)
ExpectedName(href) == BeforeFragment(Remainder(href, prefix))
Accepted(href) ==
    /\ StartsWith(href, prefix)
    /\ ExpectedName(href) # Main_Page
    /\ \A i \in 1..Len(ExpectedName(href)) : ExpectedName(href)[i] # ":"

\* The last element read is a link the element loop looked at: an anchor with
\* a target, not the boundary at which the loop breaks.
LinkRead ==
    /\ read # None
    /\ read[1].name = "a"
    /\ read[1].href # None
    /\ external \/ read[1].id # Some(External_links)

\* C12: a link target yields a candidate exactly when it starts with the prefix
\* in force and the rest, cut at the first '#', is not Main_Page and has no
\* ':'; the candidate is that rest.  (SpecPage)
C12_LinkFilter ==
    LinkRead =>
        /\ seen # None <=> Accepted(read[1].href[1])
        /\ seen # None => seen[1].name = ExpectedName(read[1].href[1])

\* A target with a fragment holding a ':' has yielded its article, the target
\* of the search.
C12_Witness ==
    /\ read = Some(Element("a", None, Some(prefix \o <<"B", "#", ":">>)))
    /\ seen = Some([name |-> <<"B">>, new |-> TRUE])
    /\ output # <<>>

\* C13: without --external the element loop stops at the first element with
\* the id External_links, and that element inserts nothing and matches
\* nothing; with --external such an element is read as any other and the
\* loop goes on.  (SpecPage)
C13_ExternalLinksBoundary ==
    /\ [](  (read # None /\ read[1].id = Some(External_links)) =>
               IF external
               THEN /\ pc \in {"scan", "done"}
                    /\ pc = "done" => seen # None /\ seen[1].name = end
                    /\ seen # None <=>
                          /\ read[1].name = "a"
                          /\ read[1].href # None
                          /\ Accepted(read[1].href[1])
               ELSE /\ pc # "scan"
                    /\ elem_count = 0
                    /\ seen = None )
    /\ [][ (pc = "scan" /\ ~external /\ read' # None
              /\ read'[1].id = Some(External_links)) =>
              UNCHANGED <<articles, article_parent, next_level_len, output>> ]_vars

\* A link before the boundary was inserted; the boundary element, itself a
\* link to the target, ended the reading of the page without a match.
C13_Witness ==
    /\ ~external
    /\ read = Some(Element("a", Some(External_links), Some(prefix \o <<"B">>)))
    /\ end = <<"B">>
    /\ ALen(articles) = 3
    /\ articles[2] = <<"B", "B">>
    /\ output = <<>>

\* --------------------------------------------------------- the limiter
\* C14 as stated: a request is sent at least req_wait after the previous
\* request returned.  (SpecTime)
C14_SpacedFromReturn ==
    \A k \in 2..Len(fetched) :
        fetched[k].sent - fetched[k - 1].returned >= req_wait

\* C14, amended: a request is sent at least req_wait after the previous
\* request was sent, the instant the limiter keeps in prev_req, whatever the
\* requests take and however the previous one ended.  (SpecTime)
C14_SpacedFromSend ==
    /\ \A k \in 2..Len(fetched) :
          fetched[k].sent - fetched[k - 1].sent >= req_wait
    /\ Len(fetched) >= 1 => prev_req = fetched[Len(fetched)].sent

\* The second request took less than req_wait and failed, and the limiter
\* slept before the third; the first took longer than req_wait, and the
\* limiter did not sleep before the second.
C14_Witness ==
    /\ Len(fetched) >= 3
    /\ ~fetched[2].ok
    /\ fetched[2].waited = 0
    /\ fetched[2].returned > fetched[2].sent
    /\ fetched[3].waited > 0
    /\ fetched[3].sent - fetched[2].returned < req_wait

\* C15: whatever the clock shows when the search starts, prev_req lies
\* req_wait before it, and the limiter does not sleep before the first
\* request.  (SpecTime)
C15_FirstFetchNotDelayed ==
    /\ pc = "range" => now - prev_req = req_wait
    /\ Len(fetched) >= 1 => fetched[1].waited = 0
====
